---- MODULE Spec2Model ----
(***************************************************************************)
(* travelingSalesman.py: main() parses the command line, reads and         *)
(* geocodes an address file (-f) or loads a pickled matrix (-D), rewrites  *)
(* the -1 sentinel, hands the matrix to the routing library through        *)
(* distance_callback, and print_solution walks the returned route.         *)
(*                                                                         *)
(* Costs are integers here (the routing library computes with integers).   *)
(* A matrix is a function [0..N-1 -> [0..N-1 -> Int]]; a Python list is a  *)
(* sequence, so Python's locations[k] is locations[k + 1] below.           *)
(* An optional value (None or v) is the sequence << >> or << v >>.         *)
(***************************************************************************)
EXTENDS Integers, Sequences, FiniteSets

\* ---------------------------------------------------------------- bounds
\* Longest address file (in lines) of the main specification.
MaxLines == 3
\* Largest pickled matrix (rows) given with -D.
MaxN == 2
\* Most cells of a pickled matrix that differ from numpy's initial 0.
PickledCells == 2
\* Most cells of a Distance Matrix API answer in the main specification.
AnswerCells == 1
\* Longest address file of the specification of the customer limit.
ManyLines == 51

\* ------------------------------------------------------ program constants
BING_DM_API_CUSTOMER_LIMIT == 50
\* create_data_model: D[D == -1] = 999999
Sentinel == -1
LargeNumber == 999999

\* ------------------------------------------------------------ input sets
\* travelDistance values of a cell: unreachable, two ordinary distances
\* and a distance above the substitute of the sentinel.
CellValues == {-1, 3, 1000000}
\* -C values given on the command line.
Capacities == {1}
\* The fifth field of an address line as text: a number or not a number.
DemandTexts == {"2", "x"}

\* An address line after strip() and split('\t'): the tuple of its fields.
\* A blank line is << >> (it is skipped before the split).
Fields4 == <<"addr", "00100", "city", "FI">>
LineKinds ==
    {<< >>, <<"addr", "00100", "city">>, Fields4}
    \cup {Fields4 \o <<d>> : d \in DemandTexts}
    \cup {Fields4 \o <<"2", "note">>}
    \cup {Fields4 \o <<"2", "note", "more">>}

\* All tuples over S of length at most n.
RECURSIVE SeqsUpTo(_, _)
SeqsUpTo(S, n) ==
    IF n = 0 THEN {<< >>}
    ELSE LET shorter == SeqsUpTo(S, n - 1)
         IN  shorter \cup {Append(s, x) : s \in {t \in shorter : Len(t) = n - 1}, x \in S}

\* --------------------------------------------------------------- matrices
Nodes(n) == 0 .. (n - 1)
Rows(M) == Cardinality(DOMAIN M)

\* A cell of a Distance Matrix API answer over n coordinates; the origin and
\* destination are numbered row by row as the place p in 0 .. n*n - 1.
Cell(n, p, v) ==
    [originIndex |-> p \div n, destinationIndex |-> p % n, travelDistance |-> v]

\* Answers with at most k cells at the places from .. n*n - 1, each origin and
\* destination pair at most once.
RECURSIVE ResultsFrom(_, _, _)
ResultsFrom(n, k, from) ==
    IF k = 0 THEN {{}}
    ELSE {{}} \cup UNION {UNION {{r \cup {Cell(n, p, v)} : r \in ResultsFrom(n, k - 1, p + 1)} :
                                   v \in CellValues} : p \in from .. (n * n - 1)}

Results(n, k) == ResultsFrom(n, k, 0)

\* D = np.zeros((N, N))
\* for cell in results: D[cell['originIndex'], cell['destinationIndex']] = cell['travelDistance']
FillMatrix(n, results) ==
    [i \in Nodes(n) |-> [j \in Nodes(n) |->
        IF \E c \in results : c.originIndex = i /\ c.destinationIndex = j
        THEN (CHOOSE c \in results : c.originIndex = i /\ c.destinationIndex = j).travelDistance
        ELSE 0]]

\* The matrices a -D file may hold: what an earlier run pickled with -o.
PickledMatrices ==
    UNION {{FillMatrix(n, r) : r \in Results(n, PickledCells)} : n \in 0 .. MaxN}

\* create_data_model without the rewrite of the sentinel.
create_data_model_NoRewrite(M) == M

\* create_data_model with the substitute max(matrix) * N instead of 999999.
create_data_model_MaxTimesN(M) ==
    LET entries == {M[i][j] : i, j \in DOMAIN M}
        largest == CHOOSE e \in entries : \A f \in entries : f <= e
    IN  [i \in DOMAIN M |-> [j \in DOMAIN M[i] |->
            IF M[i][j] = Sentinel THEN largest * Cardinality(DOMAIN M) ELSE M[i][j]]]

\* create_data_model: every -1 becomes 999999, the other entries are kept.
create_data_model(M) ==
    [i \in DOMAIN M |-> [j \in DOMAIN M[i] |->
        IF M[i][j] = Sentinel THEN LargeNumber ELSE M[i][j]]]

\* ------------------------------------------------------------ address lines
\* float(parts[4]) on the texts of DemandTexts; << >> is a ValueError.
Float(text) ==
    CASE text = "0" -> <<0>>
      [] text = "1" -> <<1>>
      [] text = "2" -> <<2>>
      [] OTHER -> << >>

\* len(parts) < 4 or len(parts) > 6
InvalidLine(parts) == Len(parts) < 4 \/ Len(parts) > 6

\* "demand": 1 if len(locations) > 0 else 0
DefaultDemand(locs) == IF Len(locs) > 0 THEN 1 ELSE 0

\* The location dictionary main builds from the parts of a valid line,
\* for a fifth field that float() accepts. The "comment" key of a line of
\* six parts is left out: nothing reads it, and the demand is not touched
\* when it is set.
ParseLocation(parts, locs) ==
    [addressLine |-> parts[1], postalCode |-> parts[2],
     locality |-> parts[3], countryRegion |-> parts[4],
     demand |-> IF Len(parts) = 5 THEN Float(parts[5])[1] ELSE DefaultDemand(locs)]

\* geocode_data: a copy of the address with the coordinates added.
geocode_data(address_data) ==
    [k \in DOMAIN address_data \cup {"latitude", "longitude"} |->
        IF k \in DOMAIN address_data THEN address_data[k] ELSE 0]

\* The limit taken for the number of distances (50 x 50) instead of coordinates.
ExceedsLimit_Distances(n) == n > BING_DM_API_CUSTOMER_LIMIT * BING_DM_API_CUSTOMER_LIMIT

\* len(locations) > BING_DM_API_CUSTOMER_LIMIT
ExceedsLimit(n) == n > BING_DM_API_CUSTOMER_LIMIT

\* ------------------------------------------------------------------ state
VARIABLES
    pc,                    \* where main stands, or how it ended
    address_file,          \* -f: the lines not yet read; << >> otherwise
    distance_matrix_file,  \* -D: << M >>, the pickled matrix; << >> otherwise
    travel_mode,           \* -t: the travel mode
    C,                     \* -C: << >> or << capacity >>
    locations,             \* the geocoded locations
    D,                     \* the numpy matrix
    data,                  \* data['distance_matrix']
    manager,               \* << >> or << number of nodes >>
    solution,              \* solution.Value(routing.NextVar(i)), per index i
    index,                 \* print_solution: index
    route_distance,        \* print_solution: route_distance
    route                  \* print_solution: the nodes whose address was printed

vars == <<pc, address_file, distance_matrix_file, travel_mode, C, locations, D,
          data, manager, solution, index, route_distance, route>>

\* ------------------------------------------------------- routing library
\* RoutingIndexManager(num_nodes, 1, 0): node k has index k, the route of
\* the one vehicle starts at index 0 and ends at index num_nodes.
NumNodes == manager[1]
\* The walk begun at the first visit instead of the start of the route.
Start_FirstVisit == solution[0]
\* routing.Start(0)
Start == 0
IsEnd(i) == i = NumNodes
IndexToNode(i) == IF i = NumNodes THEN 0 ELSE i

\* distance_callback with the two nodes exchanged.
distance_callback_Transposed(from_index, to_index) ==
    data[IndexToNode(to_index)][IndexToNode(from_index)]

\* def distance_callback(from_index, to_index)
distance_callback(from_index, to_index) ==
    data[IndexToNode(from_index)][IndexToNode(to_index)]

\* The arc cost is the registered transit callback's value.
GetArcCostForVehicle(from_index, to_index) == distance_callback(from_index, to_index)

\* The orders in which the nodes 1 .. n-1 can be visited.
Orders(n) ==
    {p \in [1 .. (n - 1) -> 1 .. (n - 1)] : \A a, b \in 1 .. (n - 1) : p[a] = p[b] => a = b}

\* NextVar values of the route 0, p[1], ..., p[n-1], end.
NextVars(n, p) ==
    [i \in Nodes(n) |->
        LET at == IF i = 0 THEN 0 ELSE CHOOSE a \in 1 .. (n - 1) : p[a] = i
        IN  IF at = n - 1 THEN n ELSE p[at + 1]]

\* ------------------------------------------------------------------- Init
InitRest ==
    /\ pc = "args"
    /\ locations = << >>
    /\ D = << >>
    /\ data = << >>
    /\ manager = << >>
    /\ solution = << >>
    /\ index = 0
    /\ route_distance = 0
    /\ route = << >>

\* The command lines argparse accepts: exactly one of -f, -t, -D, and -C or not.
Init ==
    /\ C \in {<< >>} \cup {<<c>> : c \in Capacities}
    /\ \/ /\ address_file \in {<<f>> : f \in SeqsUpTo(LineKinds, MaxLines)}
          /\ distance_matrix_file = << >>
          /\ travel_mode = "Driving"
       \/ /\ address_file = << >>
          /\ distance_matrix_file \in {<<M>> : M \in PickledMatrices}
          /\ travel_mode = "Driving"
       \/ /\ address_file = << >>
          /\ distance_matrix_file = << >>
          /\ travel_mode \in {"Driving", "Walking"}
    /\ InitRest

\* ---------------------------------------------------------------- actions
\* if args.address_file: ... elif args.distance_matrix_file: ... else: assert False
Branch ==
    /\ pc = "args"
    /\ pc' = IF address_file # << >> THEN "readlines"
             ELSE IF distance_matrix_file # << >> THEN "load"
             ELSE "AssertionError"
    /\ UNCHANGED <<address_file, distance_matrix_file, travel_mode, C, locations, D,
                   data, manager, solution, index, route_distance, route>>

\* One round of "for line in args.address_file.readlines()".
ReadLine ==
    /\ pc = "readlines"
    /\ address_file[1] # << >>
    /\ LET parts == Head(address_file[1])
       IN  \E found \in BOOLEAN :
             /\ address_file' = <<Tail(address_file[1])>>
             /\ IF Len(parts) = 0
                THEN pc' = "readlines" /\ locations' = locations
                ELSE IF InvalidLine(parts)
                THEN pc' = "exit_invalid_line" /\ locations' = locations
                ELSE IF Len(parts) = 5 /\ Float(parts[5]) = << >>
                THEN pc' = "ValueError" /\ locations' = locations
                ELSE IF ~found
                THEN pc' = "geocode_error" /\ locations' = locations
                ELSE /\ pc' = "readlines"
                     /\ locations' = Append(locations, geocode_data(ParseLocation(parts, locations)))
    /\ UNCHANGED <<distance_matrix_file, travel_mode, C, D, data, manager,
                   solution, index, route_distance, route>>

\* The end of the loop and "if len(locations) > BING_DM_API_CUSTOMER_LIMIT".
CheckLimit ==
    /\ pc = "readlines"
    /\ address_file[1] = << >>
    /\ pc' = IF ExceedsLimit(Len(locations)) THEN "exit_limit" ELSE "request"
    /\ UNCHANGED <<address_file, distance_matrix_file, travel_mode, C, locations, D,
                   data, manager, solution, index, route_distance, route>>

\* D = request_distance_matrix(locations, ...), for answers of at most k cells.
RequestDistanceMatrix(k) ==
    /\ pc = "request"
    /\ \E results \in Results(Len(locations), k) :
         D' = FillMatrix(Len(locations), results)
    /\ pc' = "model"
    /\ UNCHANGED <<address_file, distance_matrix_file, travel_mode, C, locations,
                   data, manager, solution, index, route_distance, route>>

\* D = pickle.load(args.distance_matrix_file)
LoadDistanceMatrix ==
    /\ pc = "load"
    /\ D' = distance_matrix_file[1]
    /\ pc' = "model"
    /\ UNCHANGED <<address_file, distance_matrix_file, travel_mode, C, locations,
                   data, manager, solution, index, route_distance, route>>

\* data = create_data_model(D); the rewrite is done in place on D.
CreateDataModel ==
    /\ pc = "model"
    /\ D' = create_data_model(D)
    /\ data' = create_data_model(D)
    /\ pc' = "routing"
    /\ UNCHANGED <<address_file, distance_matrix_file, travel_mode, C, locations,
                   manager, solution, index, route_distance, route>>

\* manager, routing, RegisterTransitCallback, SetArcCostEvaluatorOfAllVehicles.
\* The depot 0 has to be one of the nodes.
CreateRoutingModel ==
    /\ pc = "routing"
    /\ IF Rows(data) = 0
       THEN pc' = "manager_error" /\ manager' = manager
       ELSE pc' = "solve" /\ manager' = <<Rows(data)>>
    /\ UNCHANGED <<address_file, distance_matrix_file, travel_mode, C, locations, D,
                   data, solution, index, route_distance, route>>

\* solution = routing.SolveWithParameters(search_parameters): a route of the
\* one vehicle through every node, or None.
Solve ==
    /\ pc = "solve"
    /\ \E found \in BOOLEAN :
         IF found
         THEN /\ \E p \in Orders(NumNodes) : solution' = NextVars(NumNodes, p)
              /\ pc' = "print_solution"
         ELSE /\ solution' = solution
              /\ pc' = "no_solution"
    /\ UNCHANGED <<address_file, distance_matrix_file, travel_mode, C, locations, D,
                   data, manager, index, route_distance, route>>

\* print_solution up to the loop: index = routing.Start(0); route_distance = 0
PrintSolutionBegin ==
    /\ pc = "print_solution"
    /\ index' = Start
    /\ route_distance' = 0
    /\ pc' = "walk"
    /\ UNCHANGED <<address_file, distance_matrix_file, travel_mode, C, locations, D,
                   data, manager, solution, route>>

\* One round of "while not routing.IsEnd(index)".
PrintSolutionStep ==
    /\ pc = "walk"
    /\ ~IsEnd(index)
    /\ IF IndexToNode(index) + 1 \in DOMAIN locations
       THEN /\ route' = Append(route, IndexToNode(index))
            /\ index' = solution[index]
            /\ route_distance' = route_distance + GetArcCostForVehicle(index, solution[index])
            /\ pc' = "walk"
       ELSE /\ pc' = "IndexError"
            /\ UNCHANGED <<route, index, route_distance>>
    /\ UNCHANGED <<address_file, distance_matrix_file, travel_mode, C, locations, D,
                   data, manager, solution>>

\* After the loop: the address of the end node and the route distance.
PrintSolutionEnd ==
    /\ pc = "walk"
    /\ IsEnd(index)
    /\ IF IndexToNode(index) + 1 \in DOMAIN locations
       THEN route' = Append(route, IndexToNode(index)) /\ pc' = "done"
       ELSE route' = route /\ pc' = "IndexError"
    /\ UNCHANGED <<address_file, distance_matrix_file, travel_mode, C, locations, D,
                   data, manager, solution, index, route_distance>>

Next ==
    \/ Branch
    \/ ReadLine
    \/ CheckLimit
    \/ RequestDistanceMatrix(AnswerCells)
    \/ LoadDistanceMatrix
    \/ CreateDataModel
    \/ CreateRoutingModel
    \/ Solve
    \/ PrintSolutionBegin
    \/ PrintSolutionStep
    \/ PrintSolutionEnd

Spec == Init /\ [][Next]_vars

\* The customer limit: address files of up to ManyLines valid lines, followed
\* up to the construction of the routing model, with an API answer without cells.
InitLimit ==
    /\ C = << >>
    /\ address_file \in {<<[k \in 1 .. n |-> Fields4]>> : n \in 0 .. ManyLines}
    /\ distance_matrix_file = << >>
    /\ travel_mode = "Driving"
    /\ InitRest

NextLimit ==
    \/ Branch
    \/ ReadLine
    \/ CheckLimit
    \/ RequestDistanceMatrix(0)
    \/ CreateDataModel
    \/ CreateRoutingModel

SpecLimit == InitLimit /\ [][NextLimit]_vars

\* ------------------------------------------------------------------ claims
\* Where main stands once the transit callback is registered.
Registered == {"solve", "no_solution", "print_solution", "walk", "done", "IndexError"}
\* Where main stands once request_distance_matrix has been entered.
Requested == {"request", "model", "routing", "manager_error"} \cup Registered

\* The cost of a route: the matrix entries of its consecutive pairs.
RECURSIVE RouteCost(_)
RouteCost(r) ==
    IF Len(r) < 2 THEN 0 ELSE data[r[1]][r[2]] + RouteCost(Tail(r))

\* The demand of the locations of a set of nodes.
RECURSIVE Demand(_)
Demand(nodes) ==
    IF nodes = {} THEN 0
    ELSE LET k == CHOOSE x \in nodes : TRUE
         IN  locations[k + 1].demand + Demand(nodes \ {k})

\* r starts and ends at the depot 0 and visits each of 1 .. n-1 exactly once.
ClosedTour(r, n) ==
    /\ Len(r) = n + 1
    /\ r[1] = 0
    /\ r[Len(r)] = 0
    /\ \A k \in 1 .. (n - 1) : Cardinality({at \in 1 .. Len(r) : r[at] = k}) = 1
    /\ \A at \in 2 .. (Len(r) - 1) : r[at] \in 1 .. (n - 1)

\* C1: when print_solution has walked the solution to its end node, the
\* printed route starts at location 0, ends at location 0 and holds every
\* other location of the N x N matrix exactly once.
C1_ClosedTour == pc = "done" => ClosedTour(route, Rows(data))

\* C1 witness: a route over three locations in the order 0, 2, 1, 0.
C1_Witness == pc = "done" /\ Rows(data) = 3 /\ route = <<0, 2, 1, 0>>

\* C2: when a capacity is given with -C, the demands of the locations of a
\* reported route add up to at most that capacity.
C2_CapacityRespected ==
    (pc = "done" /\ C # << >>) => Demand({route[at] : at \in 1 .. Len(route)}) <= C[1]

\* C3: once the callback is registered, distance_callback returns -1 for no
\* pair of indices, and no pair of consecutive locations of the printed route
\* has the matrix entry -1.
C3_NoSentinelCost ==
    /\ pc \in Registered =>
          \A from_index, to_index \in 0 .. NumNodes :
              distance_callback(from_index, to_index) # Sentinel
    /\ \A at \in 1 .. (Len(route) - 1) : data[route[at]][route[at + 1]] # Sentinel

\* C3 witness: a printed route that takes an arc the matrix gave as -1.
C3_Witness ==
    /\ pc = "done"
    /\ \E at \in 1 .. (Len(route) - 1) : data[route[at]][route[at + 1]] = LargeNumber

MaxEntry(M) ==
    CHOOSE e \in {M[i][j] : i, j \in DOMAIN M} : \A a, b \in DOMAIN M : M[a][b] <= e

\* C5 as stated: create_data_model turns every -1 into max(matrix) * N, a
\* value above every other entry of the matrix.
C5_MaxTimesN ==
    [][pc = "model" =>
          \A i, j \in DOMAIN D :
              D[i][j] = Sentinel =>
                  /\ data'[i][j] = MaxEntry(D) * Rows(D)
                  /\ \A a, b \in DOMAIN D : D[a][b] # Sentinel => data'[i][j] > D[a][b]]_vars

\* C5 as amended: create_data_model turns every -1 into the constant 999999,
\* whatever the other entries and N are, and keeps every other entry.
C5_ConstantSubstitute ==
    [][pc = "model" =>
          /\ DOMAIN data' = DOMAIN D
          /\ \A i, j \in DOMAIN D :
                data'[i][j] = IF D[i][j] = -1 THEN 999999 ELSE D[i][j]]_vars

\* C5 witness: a pickled matrix with a -1 entry and an entry above 999999,
\* after create_data_model.
C5_Witness ==
    /\ pc = "routing"
    /\ distance_matrix_file # << >>
    /\ \E i, j, a, b \in DOMAIN data :
          /\ distance_matrix_file[1][i][j] = -1
          /\ data[i][j] = 999999
          /\ data[a][b] > data[i][j]

\* C6: with more than 50 locations main stops at the limit: it does not reach
\* request_distance_matrix or anything after it, and when it exits for the
\* limit no matrix, data model or routing manager has been made.
C6_LimitBeforeRequest ==
    /\ pc \in Requested => Len(locations) <= 50
    /\ pc = "exit_limit" =>
          Len(locations) > 50 /\ D = << >> /\ data = << >> /\ manager = << >>

\* C6 witness: the exit for an address file of 51 locations.
C6_Witness == pc = "exit_limit" /\ Len(locations) = 51

\* C7: the demand of the first location is 0.
C7_DepotDemandZero == Len(locations) >= 1 => locations[1].demand = 0

\* C8: main never arrives at the assert False of the last else branch.
C8_NeverAssertFalse == pc # "AssertionError"

\* C9: a location's demand is the number in the fifth field of its line when
\* the line has five or six parts, and the default when it has four.
C9_DemandIsFifthField ==
    [][(pc = "readlines" /\ Len(locations') = Len(locations) + 1) =>
          LET parts == Head(address_file[1])
          IN  locations'[Len(locations')].demand =
                  IF Len(parts) >= 5 THEN Float(parts[5])[1] ELSE DefaultDemand(locations)]_vars

\* C10: when print_solution is called and while it runs, locations has one
\* entry per row of the distance matrix.
C10_LocationPerRow ==
    pc \in {"print_solution", "walk", "done", "IndexError"} => Len(locations) = Rows(data)

====
